---- MODULE Spec2Model ----
(***************************************************************************)
(* playsound: one playback interface (play, stop, pause, resume) over      *)
(* three native backends, src/playsound.py.                                *)
(*                                                                         *)
(*   playsoundWin  drives the MCI command-string interface (winmm)        *)
(*   playsoundOSX  wraps one AppKit NSSound object                         *)
(*   playsoundNix  drives a GStreamer playbin                              *)
(*                                                                         *)
(* Text is modelled as a sequence of tokens (pieces of text); Python's     *)
(* `a + b` is \o, `p in s` is Contains(s, p), s.startswith(p) is           *)
(* StartsWith(s, p).  The native subsystems are the environment: each      *)
(* native call may succeed or fail, and what it returns follows the        *)
(* session / object / pipeline it is applied to.                           *)
(*                                                                         *)
(* One thread (the caller) makes the calls; while it is blocked inside a   *)
(* blocking call a second thread may call stop() or pause().               *)
(***************************************************************************)
EXTENDS Integers, Sequences, FiniteSets, TLC

VARIABLES
    os,           \* operating_system (line 4): selects the backend
    cwd,          \* the process's working directory
    stop_sound,   \* self.stop_sound (Win, OSX)
    pause_sound,  \* self.pause_sound (Win, OSX)
    alias,        \* playsoundWin.alias
    pause_audio,  \* playsoundWin: what self.pause_audio is bound to
    mci,          \* the MCI subsystem: the session under each alias
    nssound,      \* playsoundOSX.nssound: the NSSound object held, or None
    is_playing,   \* playsoundOSX.is_playing
    paused,       \* playsoundOSX.paused: "unset" until assigned
    orphans,      \* the NSSound objects still alive that it held before
    timer,        \* the sleep the calling thread is in: time left, time slept
    playbin,      \* the GStreamer playbin made by the call
    pc,           \* where the calling thread is
    call,         \* the call the calling thread is in, or made last
    trace,        \* native calls and sleeps of that call, in order
    result,       \* how that call ended: "running", "ok" or the exception
    msg,          \* str(e) of the exception it raised
    oresult,      \* the second thread's last call during this call
    played,       \* play has been called on the instance
    polled        \* _manage_block has been entered on the instance

flagVars == <<stop_sound, pause_sound>>
winVars == <<alias, pause_audio, mci>>
osxVars == <<nssound, is_playing, paused, orphans, timer>>
nixVars == <<playbin>>
callVars == <<pc, call, trace, result, msg>>
histVars == <<played, polled>>

vars == <<os, cwd, flagVars, winVars, osxVars, nixVars, callVars, oresult,
          histVars>>

----------------------------------------------------------------------------
(* Bounds *)

\* the poll loop of _manage_block is followed for at most this many sleeps
MaxPolls == 3
\* NSSound objects alive at once besides the one the instance holds
MaxOrphans == 1
\* the longest duration an NSSound reports, in units of time
MaxDuration == 2

----------------------------------------------------------------------------
(* Text *)

Contains(s, p) ==
    \E i \in 0..(Len(s) - Len(p)) : SubSeq(s, i + 1, i + Len(p)) = p

StartsWith(s, p) ==
    Len(s) >= Len(p) /\ SubSeq(s, 1, Len(p)) = p

RECURSIVE Join(_, _)
\* sep.join(parts)
Join(sep, parts) ==
    IF parts = <<>> THEN <<>>
    ELSE IF Len(parts) = 1 THEN parts[1]
    ELSE parts[1] \o sep \o Join(sep, Tail(parts))

----------------------------------------------------------------------------
(* The call in progress *)

\* one entry of trace: a native call (k = "cmd", "native") with the error code
\* and the value it returned, or a sleep with its length
Entry(k, a, err, buf) == [k |-> k, a |-> a, err |-> err, buf |-> buf]
Sleep(len) == Entry("sleep", len, 0, "")
Native(name, a, ret) == Entry("native", <<name>> \o a, 0, ret)

Sleeps(t) == Cardinality({i \in 1..Len(t) : t[i].k = "sleep"})

\* pre: for resume, the state of the instance's playback as the call is made
NewCall(op, sound, block, pre) ==
    [op |-> op, sound |-> sound, block |-> block, pre |-> pre]

NoOther == [op |-> "none", res |-> "none"]
Other(op, res) == [op |-> op, res |-> res]

Idle == pc = "idle"
Blocked == pc \in {"mb_sleep", "mb_status", "osx_sleep", "nix_poll"}
Threads == {"caller", "second"}
\* the caller makes a call when it is in none; the second thread calls while
\* the caller is blocked in one
MayCall(t) == IF t = "caller" THEN Idle ELSE Blocked

----------------------------------------------------------------------------
(* playsoundWin: the MCI command interface *)

\* f'playsound_alias_{id(self)}', and an alias a caller passes to play
DefaultAlias == <<"playsound_alias_1">>
OtherAlias == <<"mine">>
Aliases == {DefaultAlias, OtherAlias}
\* alias=None
NoAlias == <<>>

SongMp3 == <<"song.mp3">>
OddName == <<"Error ", "289", " for command", ".mp3">>
WinSounds == {SongMp3, OddName}

\* playsoundWin.mcierr_duplicate_alias
mcierr_duplicate_alias == <<"Error ", "289", " for command">>

\* error codes mciSendStringA returns: invalid device name (the alias is not
\* open), file not found, internal driver error, duplicate alias
MCIERR_INVALID_DEVICE_NAME == 263
MCIERR_FILE_NOT_FOUND == 275
MCIERR_INTERNAL == 277
MCIERR_DUPLICATE_ALIAS == 289

Closed == [open |-> FALSE, mode |-> "stopped", src |-> <<>>]

\* mciGetErrorStringA(errorCode, ...)
ErrorString(code) == <<"<MCI error text>">>

\* the exception message winCommand builds
ExceptionMessage(errorCode, command) ==
    <<"\n    ", "Error ", ToString(errorCode), " for command", ":\n">>
        \o command \o <<"\n    ">> \o ErrorString(errorCode)

\* ' '.join(command)
CommandText(parts) == Join(<<" ">>, parts)

OpenParts(sound, a) == << <<"open \"">> \o sound \o <<"\" alias">>, a >>
VerbParts(verb, a) == << <<verb>>, a >>
StatusParts(a) == << <<"status">>, a, <<"mode">> >>

\* What mciSendStringA can answer to a command on alias a, with the sessions
\* as in m: records [err, buf, mci].  Any command can fail in the driver; a
\* command other than open on an alias that is not open is refused.
Answer(err, buf, m) == [err |-> err, buf |-> buf, mci |-> m]

SendOpen(m, a, sound) ==
    IF m[a].open
    THEN {Answer(MCIERR_DUPLICATE_ALIAS, "", m)}
    ELSE {Answer(0, "", [m EXCEPT ![a] =
                           [open |-> TRUE, mode |-> "stopped", src |-> sound]]),
          Answer(MCIERR_FILE_NOT_FOUND, "", m)}

SendVerb(m, a, verb) ==
    IF ~m[a].open
    THEN {Answer(MCIERR_INVALID_DEVICE_NAME, "", m)}
    ELSE {Answer(MCIERR_INTERNAL, "", m),
          Answer(0, "",
            CASE verb = "close" -> [m EXCEPT ![a] = Closed]
              [] verb = "play" -> [m EXCEPT ![a].mode = "playing"]
              [] verb = "stop" -> [m EXCEPT ![a].mode = "stopped"]
              [] verb = "pause" ->
                    [m EXCEPT ![a].mode =
                        IF @ = "playing" THEN "paused" ELSE @]
              [] verb = "resume" ->
                    [m EXCEPT ![a].mode =
                        IF @ = "paused" THEN "playing" ELSE @]
              [] OTHER -> m)}

SendStatus(m, a) ==
    IF ~m[a].open
    THEN {Answer(MCIERR_INVALID_DEVICE_NAME, "", m)}
    ELSE {Answer(MCIERR_INTERNAL, "", m), Answer(0, m[a].mode, m)}

\* the entry of trace for a submission answered r
Cmd(parts, r) == Entry("cmd", CommandText(parts), r.err, r.buf)
\* sleep(0.1)
PollInterval == <<"0.1">>

\* winCommand: a non-zero error code raises PlaysoundException(message)
Raised(r) == r.err # 0
ErrorOf(r, parts) == ExceptionMessage(r.err, CommandText(parts))

\* a play that re-raises every failure of open
NeverTolerated(e) == FALSE

\* play's test of the exception raised by open: re-raised unless tolerated
Tolerated(e) == Contains(e, mcierr_duplicate_alias)

Win == os = "Windows"
WinMode == IF mci[alias].open THEN mci[alias].mode ELSE "none"

\* a poll loop that asks for the status before its first sleep
EnterManageBlockPollFirst ==
    /\ stop_sound' = FALSE
    /\ pause_audio' = "False"
    /\ result' = "running"
    /\ pc' = "mb_status"
    /\ polled' = TRUE

\* _manage_block before its loop
EnterManageBlock ==
    /\ stop_sound' = FALSE
    /\ pause_audio' = "False"
    /\ result' = "running"
    /\ pc' = "mb_sleep"
    /\ polled' = TRUE

\* a play that opens the sound before it closes the alias
PlayCommandsOpenFirst(sound, a) ==
    <<OpenParts(sound, a), VerbParts("close", a), VerbParts("play", a)>>

\* lines 114-121: the commands play hands to winCommand, in order
PlayCommands(sound, a) ==
    <<VerbParts("close", a), OpenParts(sound, a), VerbParts("play", a)>>

\* play(sound, block, alias) up to the poll loop
WinPlay(sound, block, aliasArg) ==
    /\ Win /\ Idle
    /\ LET a == IF aliasArg # NoAlias THEN aliasArg ELSE alias
           closeP == PlayCommands(sound, a)[1]
           openP == PlayCommands(sound, a)[2]
           playP == PlayCommands(sound, a)[3]
       IN
       /\ alias' = a
       /\ call' = NewCall("play", sound, block, "")
       /\ \E c \in SendVerb(mci, a, "close") :
          \E o \in SendOpen(c.mci, a, sound) :
            IF Raised(o) /\ ~Tolerated(ErrorOf(o, openP))
            THEN /\ mci' = o.mci
                 /\ trace' = <<Cmd(closeP, c), Cmd(openP, o)>>
                 /\ result' = "PlaysoundException"
                 /\ msg' = ErrorOf(o, openP)
                 /\ pc' = "idle"
                 /\ UNCHANGED <<stop_sound, pause_audio, polled>>
            ELSE \E p \in SendVerb(o.mci, a, "play") :
                 /\ mci' = p.mci
                 /\ trace' = <<Cmd(closeP, c), Cmd(openP, o), Cmd(playP, p)>>
                 /\ IF Raised(p)
                    THEN /\ result' = "PlaysoundException"
                         /\ msg' = ErrorOf(p, playP)
                         /\ pc' = "idle"
                         /\ UNCHANGED <<stop_sound, pause_audio, polled>>
                    ELSE /\ msg' = <<>>
                         /\ IF block
                            THEN EnterManageBlock
                            ELSE /\ result' = "ok"
                                 /\ pc' = "idle"
                                 /\ UNCHANGED <<stop_sound, pause_audio,
                                                polled>>
    /\ played' = TRUE
    /\ oresult' = NoOther
    /\ UNCHANGED <<os, cwd, pause_sound, osxVars, nixVars>>

\* _manage_block: sleep(0.1)
WinSleep ==
    /\ Win /\ pc = "mb_sleep"
    /\ Sleeps(trace) < MaxPolls
    /\ trace' = Append(trace, Sleep(PollInterval))
    /\ pc' = "mb_status"
    /\ UNCHANGED <<os, cwd, flagVars, winVars, osxVars, nixVars, call, result,
                   msg, oresult, histVars>>

\* a poll loop with no exit
NeverBreaks(status) == FALSE

\* line 108: `if status == "stopped": break`
Breaks(status) == status = "stopped"

\* _manage_block: status = self.get_status(); break when "stopped"
WinStatus ==
    /\ Win /\ pc = "mb_status"
    /\ \E s \in SendStatus(mci, alias) :
        /\ trace' = Append(trace, Cmd(StatusParts(alias), s))
        /\ IF Raised(s)
           THEN /\ result' = "PlaysoundException"
                /\ msg' = ErrorOf(s, StatusParts(alias))
                /\ pc' = "idle"
           ELSE /\ msg' = msg
                /\ IF Breaks(s.buf)
                   THEN result' = "ok" /\ pc' = "idle"
                   ELSE result' = result /\ pc' = "mb_sleep"
    /\ UNCHANGED <<os, cwd, flagVars, winVars, osxVars, nixVars, call,
                   oresult, histVars>>

\* stop(), by thread t
WinStop(t) ==
    /\ Win /\ MayCall(t)
    /\ stop_sound' = TRUE
    /\ \E r \in SendVerb(mci, alias, "stop") :
        LET parts == VerbParts("stop", alias)
            res == IF Raised(r) THEN "PlaysoundException" ELSE "ok"
        IN
        /\ mci' = r.mci
        /\ IF t = "caller"
           THEN /\ call' = NewCall("stop", <<>>, FALSE, "")
                /\ trace' = <<Cmd(parts, r)>>
                /\ result' = res
                /\ msg' = IF Raised(r) THEN ErrorOf(r, parts) ELSE <<>>
                /\ oresult' = NoOther
                /\ pc' = pc
           ELSE /\ oresult' = Other("stop", res)
                /\ UNCHANGED callVars
    /\ UNCHANGED <<os, cwd, pause_sound, alias, pause_audio, osxVars, nixVars,
                   histVars>>

\* str(e) of the TypeError of calling self.pause_audio once it is bound to
\* False
NotCallable == <<"'bool' object is not callable">>

\* pause(), by thread t: self.pause_audio is called, whatever it is bound to
WinPause(t) ==
    /\ Win /\ MayCall(t)
    /\ pause_sound' = TRUE
    /\ \E r \in SendVerb(mci, alias, "pause") :
        LET parts == VerbParts("pause", alias)
            callable == pause_audio = "method"
            res == IF ~callable THEN "TypeError"
                   ELSE IF Raised(r) THEN "PlaysoundException" ELSE "ok"
        IN
        /\ mci' = IF callable THEN r.mci ELSE mci
        /\ IF t = "caller"
           THEN /\ call' = NewCall("pause", <<>>, FALSE, "")
                /\ trace' = IF callable THEN <<Cmd(parts, r)>> ELSE <<>>
                /\ result' = res
                /\ msg' = IF ~callable THEN NotCallable
                          ELSE IF Raised(r) THEN ErrorOf(r, parts)
                          ELSE <<>>
                /\ oresult' = NoOther
                /\ pc' = pc
           ELSE /\ oresult' = Other("pause", res)
                /\ UNCHANGED callVars
    /\ UNCHANGED <<os, cwd, stop_sound, alias, pause_audio, osxVars, nixVars,
                   histVars>>

\* a resume that goes ahead unless the session has stopped
NotStopped(status) == status # "stopped"

\* line 135: `if self.get_status() == 'paused'`
IsPaused(status) == status = "paused"

\* resume(block) up to the poll loop
WinResume(block) ==
    /\ Win /\ Idle
    /\ pause_sound' = FALSE
    /\ call' = NewCall("resume", <<>>, block, WinMode)
    /\ oresult' = NoOther
    /\ \E s \in SendStatus(mci, alias) :
        LET statusP == StatusParts(alias)
            resumeP == VerbParts("resume", alias)
        IN
        IF Raised(s)
        THEN /\ trace' = <<Cmd(statusP, s)>>
             /\ result' = "PlaysoundException"
             /\ msg' = ErrorOf(s, statusP)
             /\ UNCHANGED <<stop_sound, pause_audio, mci, pc, polled>>
        ELSE IF ~IsPaused(s.buf)
        THEN /\ trace' = <<Cmd(statusP, s)>>
             /\ result' = "ok"
             /\ msg' = <<>>
             /\ UNCHANGED <<stop_sound, pause_audio, mci, pc, polled>>
        ELSE \E r \in SendVerb(mci, alias, "resume") :
             /\ trace' = <<Cmd(statusP, s), Cmd(resumeP, r)>>
             /\ mci' = r.mci
             /\ IF Raised(r)
                THEN /\ result' = "PlaysoundException"
                     /\ msg' = ErrorOf(r, resumeP)
                     /\ UNCHANGED <<stop_sound, pause_audio, pc, polled>>
                ELSE /\ msg' = <<>>
                     /\ IF block
                        THEN EnterManageBlock
                        ELSE /\ result' = "ok"
                             /\ UNCHANGED <<stop_sound, pause_audio, pc, polled>>
    /\ UNCHANGED <<os, cwd, alias, osxVars, nixVars, played>>

\* what the driver reports as the length of a sound, in milliseconds
AudioLength == "1000"

\* status <alias> length
LengthParts(a) == << <<"status">>, a, <<"length">> >>
SendLength(m, a) ==
    IF ~m[a].open
    THEN {Answer(MCIERR_INVALID_DEVICE_NAME, "", m)}
    ELSE {Answer(MCIERR_INTERNAL, "", m), Answer(0, AudioLength, m)}

\* the methods of playsoundWin that a caller can also call directly, each
\* one command on self.alias
Helpers == {"close_alias", "stop_audio", "pause_audio", "resume_audio",
            "get_status", "get_duration_of_audio"}
HelperVerb(op) ==
    CASE op = "close_alias" -> "close"
      [] op = "stop_audio" -> "stop"
      [] op = "pause_audio" -> "pause"
      [] op = "resume_audio" -> "resume"
      [] OTHER -> "status"

\* close_alias(), stop_audio(), pause_audio(), resume_audio(), get_status()
\* or get_duration_of_audio() called by the caller: close_alias swallows
\* the exception of winCommand, and pause_audio is whatever the instance
\* has bound to the name
WinHelper(op) ==
    /\ Win /\ Idle
    /\ call' = NewCall(op, <<>>, FALSE, "")
    /\ oresult' = NoOther
    /\ pc' = pc
    /\ IF op = "pause_audio" /\ pause_audio # "method"
       THEN /\ trace' = <<>>
            /\ result' = "TypeError"
            /\ msg' = NotCallable
            /\ mci' = mci
       ELSE LET parts == CASE op = "get_status" -> StatusParts(alias)
                           [] op = "get_duration_of_audio" -> LengthParts(alias)
                           [] OTHER -> VerbParts(HelperVerb(op), alias)
                answers == CASE op = "get_status" -> SendStatus(mci, alias)
                             [] op = "get_duration_of_audio" ->
                                    SendLength(mci, alias)
                             [] OTHER -> SendVerb(mci, alias, HelperVerb(op))
            IN \E r \in answers :
                /\ trace' = <<Cmd(parts, r)>>
                /\ mci' = r.mci
                /\ IF Raised(r) /\ op # "close_alias"
                   THEN /\ result' = "PlaysoundException"
                        /\ msg' = ErrorOf(r, parts)
                   ELSE /\ result' = "ok"
                        /\ msg' = <<>>
    /\ UNCHANGED <<os, cwd, flagVars, alias, pause_audio, osxVars, nixVars,
                   histVars>>

\* the commands a caller hands to winCommand directly: those the class
\* builds, on any alias
DirectVerbs == {"open", "close", "play", "stop", "pause", "resume", "status"}
DirectSounds == {SongMp3}

\* winCommand(*command) called by the caller
WinCommand(verb, a, sound) ==
    /\ Win /\ Idle
    /\ LET parts == CASE verb = "open" -> OpenParts(sound, a)
                      [] verb = "status" -> StatusParts(a)
                      [] OTHER -> VerbParts(verb, a)
           answers == CASE verb = "open" -> SendOpen(mci, a, sound)
                        [] verb = "status" -> SendStatus(mci, a)
                        [] OTHER -> SendVerb(mci, a, verb)
       IN \E r \in answers :
           /\ call' = NewCall("winCommand", <<>>, FALSE, "")
           /\ trace' = <<Cmd(parts, r)>>
           /\ mci' = r.mci
           /\ result' = IF Raised(r) THEN "PlaysoundException" ELSE "ok"
           /\ msg' = IF Raised(r) THEN ErrorOf(r, parts) ELSE <<>>
    /\ oresult' = NoOther
    /\ pc' = pc
    /\ UNCHANGED <<os, cwd, flagVars, alias, pause_audio, osxVars, nixVars,
                   histVars>>

\* the device reaches the end of the sound it is playing
DeviceFinish ==
    /\ Win
    /\ \E a \in Aliases :
        /\ mci[a].open /\ mci[a].mode = "playing"
        /\ mci' = [mci EXCEPT ![a].mode = "stopped"]
    /\ UNCHANGED <<os, cwd, flagVars, alias, pause_audio, osxVars, nixVars,
                   callVars, oresult, histVars>>

----------------------------------------------------------------------------
(* playsoundOSX: one NSSound object *)

Relative == <<"song.mp3">>
Absolute == <<"/", "song.mp3">>
Remote == <<"http", "://", "host/song.mp3">>
OSXSounds == {Relative, Absolute, Remote}

\* getcwd()
Cwds == {<<"/", "home">>, <<"/">>}

\* a normalisation that joins the working directory and the name directly
OSXUrlUnseparated(sound, wd) ==
    IF ~Contains(sound, <<"://">>)
    THEN <<"file", "://">> \o
            (IF ~StartsWith(sound, <<"/">>) THEN wd \o sound ELSE sound)
    ELSE sound

\* lines 161-165: the string handed to NSURL.URLWithString_
OSXUrl(sound, wd) ==
    IF ~Contains(sound, <<"://">>)
    THEN <<"file", "://">> \o
            (IF ~StartsWith(sound, <<"/">>) THEN wd \o <<"/">> \o sound
             ELSE sound)
    ELSE sound

\* An NSSound object: playing, paused, stopped (by stop()) or finished (it
\* reached its end); dur is what duration() reports and left the playing
\* time it still has.  NoSound is None, the value of self.nssound before
\* the first play and after a construction that returned nil.
NoSound == [state |-> "none", dur |-> 0, left |-> 0]
Started(d) == [state |-> "playing", dur |-> d, left |-> d]
Over(x) == x.state \in {"none", "stopped", "finished"}

\* NSSound.stop, .pause, .resume on one object
NSStop(x) ==
    IF x.state \in {"playing", "paused"} THEN [x EXCEPT !.state = "stopped"]
    ELSE x
NSPause(x) ==
    IF x.state = "playing" THEN [x EXCEPT !.state = "paused"] ELSE x
NSResume(x) ==
    IF x.state = "paused" THEN [x EXCEPT !.state = "playing"] ELSE x

\* one unit of time of playback
NSAdvance(x) ==
    IF x.state # "playing" THEN x
    ELSE IF x.left = 1 THEN [x EXCEPT !.state = "finished", !.left = 0]
    ELSE [x EXCEPT !.left = @ - 1]

\* self.nssound = <new value>: the object held before is no longer
\* referenced by the instance; the runtime keeps it while it is not over
Superseded(old, others) == IF Over(old) THEN others ELSE others \cup {old}

NoTimer == [left |-> 0, slept |-> 0]
\* a sleep that stop() cuts short
SleepDoneOrStopped(t) == t.left = 0 \/ stop_sound

\* time.sleep(d) returns once d has passed
SleepDone(t) == t.left = 0

Darwin == os = "Darwin"
OSXMode == nssound.state

\* play(sound, block) up to the sleep
OSXPlay(sound, block) ==
    /\ Darwin /\ Idle
    /\ LET url == OSXUrl(sound, cwd)
           made == Native("NSURL.URLWithString_", url, "")
       IN
       /\ call' = NewCall("play", sound, block, "")
       /\ orphans' = Superseded(nssound, orphans)
       /\ Cardinality(orphans') <= MaxOrphans
       /\ \/ \* initWithContentsOfURL_byReference_ returns nil
             /\ nssound' = NoSound
             /\ trace' = <<made, Native("initWithContentsOfURL_", url, "nil")>>
             /\ result' = "IOError"
             /\ msg' = <<"Unable to load sound named: ">> \o url
             /\ UNCHANGED <<is_playing, timer, pc>>
          \/ \E d \in 1..MaxDuration :
             /\ nssound' = Started(d)
             /\ is_playing' = TRUE
             /\ msg' = <<>>
             /\ LET init == Native("initWithContentsOfURL_", url, "object")
                    play == Native("play", <<>>, "")
                IN
                IF block
                THEN /\ trace' = <<made, init, play,
                                   Native("duration", <<>>, ToString(d)),
                                   Sleep(<<ToString(d)>>)>>
                     /\ timer' = [left |-> d, slept |-> 0]
                     /\ result' = "running"
                     /\ pc' = "osx_sleep"
                ELSE /\ trace' = <<made, init, play>>
                     /\ result' = "ok"
                     /\ UNCHANGED <<timer, pc>>
    /\ played' = TRUE
    /\ oresult' = NoOther
    /\ UNCHANGED <<os, cwd, flagVars, winVars, paused, nixVars, polled>>

\* time passes: sounds play on, the sleeping thread sleeps on
Tick ==
    /\ Darwin
    /\ \/ nssound.state = "playing"
       \/ \E x \in orphans : x.state = "playing"
       \/ pc = "osx_sleep" /\ ~SleepDone(timer)
    /\ nssound' = NSAdvance(nssound)
    /\ orphans' = {y \in {NSAdvance(x) : x \in orphans} : ~Over(y)}
    /\ timer' = IF pc = "osx_sleep" /\ timer.left > 0
                THEN [left |-> timer.left - 1, slept |-> timer.slept + 1]
                ELSE timer
    /\ UNCHANGED <<os, cwd, flagVars, winVars, is_playing, paused, nixVars,
                   callVars, oresult, histVars>>

\* sleep(self.nssound.duration()) returns, and with it the call
OSXWake ==
    /\ Darwin /\ pc = "osx_sleep"
    /\ SleepDone(timer)
    /\ pc' = "idle"
    /\ result' = "ok"
    /\ UNCHANGED <<os, cwd, flagVars, winVars, osxVars, nixVars, call, trace,
                   msg, oresult, histVars>>

\* stop(), by thread t
OSXStop(t) ==
    /\ Darwin /\ MayCall(t)
    /\ stop_sound' = TRUE
    /\ LET acts == nssound # NoSound /\ is_playing IN
       /\ nssound' = IF acts THEN NSStop(nssound) ELSE nssound
       /\ IF t = "caller"
          THEN /\ call' = NewCall("stop", <<>>, FALSE, "")
               /\ trace' = IF acts THEN <<Native("stop", <<>>, "")>> ELSE <<>>
               /\ result' = "ok"
               /\ msg' = <<>>
               /\ oresult' = NoOther
               /\ pc' = pc
          ELSE /\ oresult' = Other("stop", "ok")
               /\ UNCHANGED callVars
    /\ UNCHANGED <<os, cwd, pause_sound, winVars, is_playing, paused, orphans,
                   timer, nixVars, histVars>>

\* pause(), by thread t
OSXPause(t) ==
    /\ Darwin /\ MayCall(t)
    /\ pause_sound' = TRUE
    /\ LET acts == nssound # NoSound IN
       /\ nssound' = IF acts THEN NSPause(nssound) ELSE nssound
       /\ IF t = "caller"
          THEN /\ call' = NewCall("pause", <<>>, FALSE, "")
               /\ trace' = IF acts THEN <<Native("pause", <<>>, "")>> ELSE <<>>
               /\ result' = "ok"
               /\ msg' = <<>>
               /\ oresult' = NoOther
               /\ pc' = pc
          ELSE /\ oresult' = Other("pause", "ok")
               /\ UNCHANGED callVars
    /\ UNCHANGED <<os, cwd, stop_sound, winVars, is_playing, paused, orphans,
                   timer, nixVars, histVars>>

\* resume(block): `self.nssound and self.paused` reads self.paused only when
\* self.nssound is an object, and no line of the class assigns self.paused
\* before that read
OSXResume(block) ==
    /\ Darwin /\ Idle
    /\ call' = NewCall("resume", <<>>, block, OSXMode)
    /\ oresult' = NoOther
    /\ IF nssound # NoSound /\ paused = "unset"
       THEN /\ result' = "AttributeError"
            /\ msg' = <<"'playsoundOSX' object has no attribute 'paused'">>
            /\ trace' = <<>>
            /\ UNCHANGED <<paused, nssound, timer, pc>>
       ELSE IF nssound # NoSound /\ paused = "True"
       THEN /\ paused' = "False"
            /\ nssound' = NSResume(nssound)
            /\ msg' = <<>>
            /\ IF block
               THEN /\ trace' = <<Native("resume", <<>>, ""),
                                  Native("duration", <<>>,
                                         ToString(nssound.dur)),
                                  Sleep(<<ToString(nssound.dur)>>)>>
                    /\ timer' = [left |-> nssound.dur, slept |-> 0]
                    /\ result' = "running"
                    /\ pc' = "osx_sleep"
               ELSE /\ trace' = <<Native("resume", <<>>, "")>>
                    /\ result' = "ok"
                    /\ UNCHANGED <<timer, pc>>
       ELSE /\ result' = "ok"
            /\ msg' = <<>>
            /\ trace' = <<>>
            /\ UNCHANGED <<paused, nssound, timer, pc>>
    /\ UNCHANGED <<os, cwd, flagVars, winVars, is_playing, orphans, nixVars,
                   histVars>>

----------------------------------------------------------------------------
(* playsoundNix: a GStreamer playbin *)

LocalOgg == <<"my", " ", "song.ogg">>
RemoteOgg == <<"https", "://", "host/song.ogg">>
AbsoluteOgg == <<"/", "song.ogg">>
NixSounds == {LocalOgg, AbsoluteOgg, RemoteOgg}

\* os.path.abspath(sound)
AbsPath(sound, wd) ==
    IF StartsWith(sound, <<"/">>) THEN sound
    ELSE IF wd = <<"/">> THEN wd \o sound
    ELSE wd \o <<"/">> \o sound

\* pathname2url(path): the characters that are not URL-safe are escaped
RECURSIVE pathname2url(_)
pathname2url(path) ==
    IF path = <<>> THEN <<>>
    ELSE <<IF Head(path) = " " THEN "%20" ELSE Head(path)>>
            \o pathname2url(Tail(path))

\* lines 213-217: what playbin.props.uri is set to
NixUri(sound, wd) ==
    IF StartsWith(sound, <<"http", "://">>)
       \/ StartsWith(sound, <<"https", "://">>)
    THEN sound
    ELSE <<"file", "://">> \o pathname2url(AbsPath(sound, wd))

\* Gst.StateChangeReturn
StateChangeReturn == {"FAILURE", "SUCCESS", "ASYNC", "NO_PREROLL"}

NoPlaybin == [state |-> "none", uri |-> <<>>, eos |-> FALSE]

Linux == os = "Linux"

\* a play that has lost its test of block
NixNeverRejects(block) == FALSE

\* line 206: `if not block`
NixRejects(block) == ~block

\* repr(set_result): the text of the enumeration value
repr(v) == <<"<enum GST_STATE_CHANGE_", v, " of type Gst.StateChangeReturn>">>

\* a play that gives up only when the state change failed outright
OnlyFailureRefused(set_result) == set_result = "FAILURE"

\* line 220: `if set_result != Gst.StateChangeReturn.ASYNC`
NotAsync(set_result) == set_result # "ASYNC"

\* play(sound, block) up to bus.poll.  The methods of playsoundNix read no
\* field of self.
NixPlay(sound, block) ==
    /\ Linux /\ Idle
    /\ call' = NewCall("play", sound, block, "")
    /\ played' = TRUE
    /\ oresult' = NoOther
    /\ IF NixRejects(block)
       THEN /\ result' = "NotImplementedError"
            /\ msg' = <<"block=False cannot be used on this platform yet">>
            /\ trace' = <<>>
            /\ UNCHANGED <<playbin, pc>>
       ELSE \E r \in StateChangeReturn :
            LET uri == NixUri(sound, cwd)
                calls == <<Native("Gst.init", <<>>, ""),
                           Native("ElementFactory.make", <<"playbin">>, ""),
                           Native("props.uri", uri, ""),
                           Native("set_state", <<"PLAYING">>, r)>>
            IN
            /\ playbin' = [state |-> IF r = "FAILURE" THEN "NULL"
                                     ELSE "PLAYING",
                           uri |-> uri, eos |-> FALSE]
            /\ IF NotAsync(r)
               THEN /\ result' = "PlaysoundException"
                    /\ msg' = <<"playbin.set_state returned ">> \o repr(r)
                    /\ trace' = calls
                    /\ pc' = pc
               ELSE /\ result' = "running"
                    /\ msg' = <<>>
                    /\ trace' = Append(calls, Native("get_bus", <<>>, ""))
                    /\ pc' = "nix_poll"
    /\ UNCHANGED <<os, cwd, flagVars, winVars, osxVars, polled>>

\* the pipeline reaches the end of the stream and posts EOS on its bus
NixEos ==
    /\ Linux
    /\ playbin.state = "PLAYING" /\ ~playbin.eos
    /\ playbin' = [playbin EXCEPT !.eos = TRUE]
    /\ UNCHANGED <<os, cwd, flagVars, winVars, osxVars, callVars, oresult,
                   histVars>>

\* a poll that does not wait for a message
PollReturnsAtOnce(bin) == TRUE

\* line 227: poll(EOS, CLOCK_TIME_NONE) waits, without a timeout, for an
\* EOS message on the bus
PollReturns(bin) == bin.eos

\* bus.poll(EOS, CLOCK_TIME_NONE) returns; playbin.set_state(Gst.State.NULL)
NixPollReturn ==
    /\ Linux /\ pc = "nix_poll"
    /\ PollReturns(playbin)
    /\ trace' = trace \o <<Native("poll", <<"EOS">>, "EOS"),
                           Native("set_state", <<"NULL">>, "SUCCESS")>>
    /\ playbin' = [playbin EXCEPT !.state = "NULL"]
    /\ result' = "ok"
    /\ pc' = "idle"
    /\ UNCHANGED <<os, cwd, flagVars, winVars, osxVars, call, msg, oresult,
                   histVars>>

\* `raise NotImplemented`: NotImplemented is no exception, so the raise
\* statement itself fails with TypeError
RaiseNotImplemented == "TypeError"

\* stop(), by thread t
NixStop(t) ==
    /\ Linux /\ MayCall(t)
    /\ IF t = "caller"
       THEN /\ call' = NewCall("stop", <<>>, FALSE, "")
            /\ trace' = <<>>
            /\ result' = RaiseNotImplemented
            /\ msg' = <<"exceptions must derive from BaseException">>
            /\ oresult' = NoOther
            /\ pc' = pc
       ELSE /\ oresult' = Other("stop", RaiseNotImplemented)
            /\ UNCHANGED callVars
    /\ UNCHANGED <<os, cwd, flagVars, winVars, osxVars, nixVars, histVars>>

\* pause() and resume(block): playsoundNix defines neither, so the call
\* runs playsoundBase's
NixInherited(op) ==
    /\ Linux /\ Idle
    /\ call' = NewCall(op, <<>>, FALSE, "")
    /\ trace' = <<>>
    /\ result' = RaiseNotImplemented
    /\ msg' = <<"exceptions must derive from BaseException">>
    /\ oresult' = NoOther
    /\ pc' = pc
    /\ UNCHANGED <<os, cwd, flagVars, winVars, osxVars, nixVars, histVars>>

----------------------------------------------------------------------------
(* The program *)

Backends == {"Windows", "Darwin", "Linux"}

\* the abstract methods of playsoundBase
Operations == {"play", "stop", "pause", "resume"}

\* lines 234-239: the class the name playsound is bound to
playsound ==
    CASE os = "Windows" -> "playsoundWin"
      [] os = "Darwin" -> "playsoundOSX"
      [] os = "Linux" -> "playsoundNix"

\* the operations a class body defines itself
Defines(cls) ==
    CASE cls = "playsoundWin" -> {"play", "stop", "pause", "resume"}
      [] cls = "playsoundOSX" -> {"play", "stop", "resume", "pause"}
      [] cls = "playsoundNix" -> {"play", "stop"}

\* cls.__abstractmethods__: what ABCMeta finds abstract and not overridden
AbstractMethods(cls) == Operations \ Defines(cls)

\* cls(): a class that still has abstract methods is not instantiated
Construct(cls) ==
    IF AbstractMethods(cls) = {} THEN "instance" ELSE "TypeError"

\* the state after import on system o, with playsound() constructed where
\* the class can be; the methods of playsoundNix are run as the class
\* defines them
InitOn(o) ==
    /\ os = o
    /\ cwd \in (IF os = "Windows" THEN {<<"/">>} ELSE Cwds)
    /\ stop_sound = FALSE
    /\ pause_sound = FALSE
    /\ alias = DefaultAlias
    /\ pause_audio = "method"
    /\ mci = [a \in Aliases |-> Closed]
    /\ nssound = NoSound
    /\ is_playing = FALSE
    /\ paused = "unset"
    /\ orphans = {}
    /\ timer = NoTimer
    /\ playbin = NoPlaybin
    /\ pc = "idle"
    /\ call = NewCall("none", <<>>, FALSE, "")
    /\ trace = <<>>
    /\ result = "none"
    /\ msg = <<>>
    /\ oresult = NoOther
    /\ played = FALSE
    /\ polled = FALSE

Init == \E o \in Backends : InitOn(o)

\* the alias argument of play: None, or an alias of the caller's
AliasArgs == {NoAlias, OtherAlias}

WinNext ==
    \/ \E s \in WinSounds, b \in BOOLEAN, a \in AliasArgs : WinPlay(s, b, a)
    \/ WinSleep
    \/ WinStatus
    \/ \E t \in Threads : WinStop(t)
    \/ \E t \in Threads : WinPause(t)
    \/ \E b \in BOOLEAN : WinResume(b)
    \/ \E op \in Helpers : WinHelper(op)
    \/ \E v \in DirectVerbs, a \in Aliases, s \in DirectSounds :
            WinCommand(v, a, s)
    \/ DeviceFinish

OSXNext ==
    \/ \E s \in OSXSounds, b \in BOOLEAN : OSXPlay(s, b)
    \/ Tick
    \/ OSXWake
    \/ \E t \in Threads : OSXStop(t)
    \/ \E t \in Threads : OSXPause(t)
    \/ \E b \in BOOLEAN : OSXResume(b)

NixNext ==
    \/ \E s \in NixSounds, b \in BOOLEAN : NixPlay(s, b)
    \/ NixEos
    \/ NixPollReturn
    \/ \E t \in Threads : NixStop(t)
    \/ \E op \in {"pause", "resume"} : NixInherited(op)

Next == WinNext \/ OSXNext \/ NixNext

\* the process, whatever system() returns
Spec == Init /\ [][Next]_vars

\* the process on each platform
WinSpec == InitOn("Windows") /\ [][WinNext]_vars
OSXSpec == InitOn("Darwin") /\ [][OSXNext]_vars
NixSpec == InitOn("Linux") /\ [][NixNext]_vars

\* playsoundWin with a thread in _manage_block that keeps running: it is
\* scheduled again after each sleep and each status query
WinFairSpec ==
    /\ InitOn("Windows") /\ [][WinNext]_vars
    /\ WF_vars(WinSleep) /\ WF_vars(WinStatus)
----------------------------------------------------------------------------
(* Properties *)

\* no native call has had an effect: the subsystems are as at construction
NativeUntouched ==
    /\ mci = [a \in Aliases |-> Closed]
    /\ nssound = NoSound /\ orphans = {}
    /\ playbin = NoPlaybin

IsStatus(e) == e.k = "cmd" /\ StartsWith(e.a, <<"status">>)
IsClose(e) == e.k = "cmd" /\ StartsWith(e.a, <<"close">>)
IsOpen(e) == e.k = "cmd" /\ StartsWith(e.a, <<"open \"">>)
\* the answers to the status queries of the call, in order
StatusAnswers(t) ==
    LET polls == SelectSeq(t, IsStatus)
    IN [i \in 1..Len(polls) |-> polls[i].buf]
\* the lengths of the sleeps of the call, in order
SleepLengths(t) ==
    LET sl == SelectSeq(t, LAMBDA e : e.k = "sleep")
    IN [i \in 1..Len(sl) |-> sl[i].a]
Calls(t, name) ==
    Cardinality({i \in 1..Len(t) : t[i].k = "native" /\ Head(t[i].a) = name})

\* C1: on each of the three backends, stop() called before any play()
\* returns without raising and leaves the native subsystem untouched.
C1_StopBeforePlayIsNoOp ==
    (Idle /\ call.op = "stop" /\ ~played)
        => (result = "ok" /\ NativeUntouched)

\* C2: on the Command-Interface and Native-Object backends, whatever calls
\* came before, a call to stop() or pause() returns without raising, by the
\* caller or by the second thread; so does a pause() made after a blocking
\* play or resume has run its poll loop.
C2_StopAndPauseNeverRaise ==
    (Win \/ Darwin)
        => /\ (Idle /\ call.op \in {"stop", "pause"}) => result = "ok"
           /\ oresult.res \in {"none", "ok"}

\* C3: on the Command-Interface and Native-Object backends, when
\* play(source, block=true) has returned, the playback it started is over
\* (finished or stopped), not playing or paused; also when the second thread
\* called pause() during the call.
C3_BlockingPlayReturnsWhenOver ==
    (Idle /\ call.op = "play" /\ call.block /\ result = "ok")
        => /\ Win => WinMode = "stopped"
           /\ Darwin => OSXMode \in {"stopped", "finished"}

\* the case of C4: a blocking play that returned, whose status queries were
\* answered "playing", "playing", "stopped"
C4_Scenario ==
    /\ Win /\ Idle /\ call.op = "play" /\ call.block /\ result = "ok"
    /\ StatusAnswers(trace) = <<"playing", "playing", "stopped">>

\* C4, as claimed: on the Command-Interface backend, a blocking play whose
\* first two status polls are answered "playing" and whose next is answered
\* "stopped" returns after exactly two poll intervals.
C4_TwoPollIntervals ==
    C4_Scenario => Sleeps(trace) = 2

\* C4, amended: on the Command-Interface backend, a blocking play whose
\* first two status polls are answered "playing" and whose next is answered
\* "stopped" returns after exactly three poll intervals, one before each
\* status query, each of 0.1 s.
C4_ThreePollIntervals ==
    C4_Scenario
        => SleepLengths(trace) = <<PollInterval, PollInterval, PollInterval>>

C4_Witness == C4_Scenario /\ Len(trace) = 9

\* C5: on the Command-Interface backend, when the open command of play is
\* answered with the duplicate-alias error 289, play raises nothing for it:
\* the next command it submits is play <alias>, and the call completes
\* normally when the commands after open are accepted.
C5_DuplicateAliasTolerated ==
    (Win /\ call.op = "play" /\ Len(trace) >= 2
         /\ trace[2].err = MCIERR_DUPLICATE_ALIAS)
        => /\ Len(trace) >= 3
           /\ trace[3].a = CommandText(VerbParts("play", alias))
           /\ (\A i \in 3..Len(trace) : trace[i].err = 0)
                => result = (IF pc = "idle" THEN "ok" ELSE "running")

C5_Witness ==
    /\ Win /\ Idle /\ call.op = "play" /\ result = "ok"
    /\ IsOpen(trace[2]) /\ trace[2].err = MCIERR_DUPLICATE_ALIAS
    /\ mci[alias].mode = "playing"

\* C6: on the Command-Interface backend, every command submitted by play,
\* stop, pause or resume that is answered with a non-zero error code, other
\* than a close and other than an open answered 289, raises
\* PlaysoundException with the error code and the command text in its
\* message.
C6_FailuresSurface ==
    Win =>
        \A i \in 1..Len(trace) :
            (/\ trace[i].k = "cmd" /\ trace[i].err # 0
             /\ ~IsClose(trace[i])
             /\ ~(IsOpen(trace[i]) /\ trace[i].err = MCIERR_DUPLICATE_ALIAS))
                => /\ result = "PlaysoundException"
                   /\ Contains(msg, <<ToString(trace[i].err)>>)
                   /\ Contains(msg, trace[i].a)

\* C7: resume() on an instance whose playback is not paused (nothing played
\* yet, playing, stopped or finished) does nothing: it returns without
\* raising, makes no native resume and does not sleep or poll.
C7_ResumeWhenNotPausedIsNoOp ==
    ((Win \/ Darwin) /\ call.op = "resume" /\ call.pre # "paused")
        => /\ Idle /\ result = "ok"
           /\ Sleeps(trace) = 0
           /\ Calls(trace, "resume") = 0
           /\ \A i \in 1..Len(trace) : IsStatus(trace[i])

\* C8: on the Native-Object backend, resume(block) on an instance whose
\* sound was played and then paused calls the native resume of the held
\* object, which plays again, and with block true then sleeps once, for the
\* duration the object reports.
C8_ResumeAfterPauseResumes ==
    (Darwin /\ call.op = "resume" /\ call.pre = "paused")
        => /\ result \in {"ok", "running"}
           /\ Calls(trace, "resume") = 1
           /\ call.block
                => SleepLengths(trace) = << <<ToString(nssound.dur)>> >>

\* C9: on the Native-Object backend, a blocking play that has returned made
\* exactly one sleep, of the duration its sound object reports, and was
\* asleep for that whole time, whether or not the second thread called
\* stop() meanwhile.
C9_BlockingPlaySleepsDuration ==
    (Darwin /\ Idle /\ call.op = "play" /\ call.block /\ result = "ok")
        => /\ SleepLengths(trace) = << <<ToString(nssound.dur)>> >>
           /\ timer.slept = nssound.dur

C9_Witness ==
    /\ Darwin /\ Idle /\ call.op = "play" /\ call.block /\ result = "ok"
    /\ oresult = Other("stop", "ok")
    /\ nssound.state = "stopped" /\ nssound.left > 0

\* C10: on the Pipeline backend, play(source, block=false) raises
\* NotImplementedError and makes no native pipeline call: no Gst.init, no
\* element, no state change, no bus poll.
C10_NonBlockingRejectedFirst ==
    (Linux /\ call.op = "play" /\ ~call.block)
        => /\ Idle /\ result = "NotImplementedError"
           /\ trace = <<>>

C10_Witness ==
    /\ Linux /\ call.op = "play" /\ ~call.block
    /\ result = "NotImplementedError"
    /\ playbin.state = "NULL"

\* the answer the playbin gave to the request for state PLAYING, if made
IsSetState(e, state) == e.k = "native" /\ e.a = <<"set_state", state>>

\* C11: on the Pipeline backend, when the request for the PLAYING state is
\* answered with any value other than ASYNC, play raises PlaysoundException
\* with that value in its message, and the bus is neither fetched nor
\* polled.
C11_RefusedStateChangeFails ==
    Linux =>
        \A i \in 1..Len(trace) :
            (IsSetState(trace[i], "PLAYING") /\ trace[i].buf # "ASYNC")
                => /\ Idle /\ result = "PlaysoundException"
                   /\ Contains(msg, <<trace[i].buf>>)
                   /\ Calls(trace, "get_bus") = 0
                   /\ Calls(trace, "poll") = 0

C11_Witness ==
    /\ Linux /\ call.op = "play" /\ result = "PlaysoundException"
    /\ IsSetState(trace[Len(trace)], "PLAYING")
    /\ trace[Len(trace)].buf = "SUCCESS"
    /\ Contains(msg, <<"SUCCESS">>)

\* C12: on every platform the backend class defines all four operations, so
\* playsound() yields an instance.
C12_EveryBackendConstructs ==
    /\ Operations \subseteq Defines(playsound)
    /\ Construct(playsound) = "instance"

\* the aliases under which a session is open in the subsystem; every session
\* there was opened by a play of the instance
OpenSessions == {a \in Aliases : mci[a].open}

\* the step is a call of play by the caller
PlayStep == Win /\ Idle /\ call'.op = "play" /\ Len(trace') >= 2

\* C13: on the Command-Interface backend, a play on an instance with at
\* most one session open in the subsystem, called with or without an alias
\* argument, leaves at most one session open: it closes the session of the
\* previous play before it opens the new one.
C13_AtMostOneSession ==
    [][(PlayStep /\ Cardinality(OpenSessions) <= 1)
            => Cardinality({a \in Aliases : mci'[a].open}) <= 1]_vars

\* the URL the call handed to NSSound's initWithContentsOfURL_byReference_
ConstructorUrl(t) == Tail(t[2].a)

\* C14: on the Native-Object backend, the URL play hands to the sound
\* constructor is 'file://' + cwd + '/' + source for a source with no '://'
\* that does not start with '/', 'file://' + source for one that starts
\* with '/', and the source unchanged when it contains '://'.
C14_UrlNormalisation ==
    (Darwin /\ call.op = "play")
        => /\ Len(trace) >= 2
           /\ Head(trace[2].a) = "initWithContentsOfURL_"
           /\ ConstructorUrl(trace) =
                IF Contains(call.sound, <<"://">>) THEN call.sound
                ELSE IF StartsWith(call.sound, <<"/">>)
                     THEN <<"file", "://">> \o call.sound
                     ELSE <<"file", "://">> \o cwd \o <<"/">> \o call.sound

C14_Witness ==
    /\ Darwin /\ call.op = "play" /\ call.sound = Relative
    /\ result = "ok"
    /\ ConstructorUrl(trace)
            = <<"file", "://", "/", "home", "/", "song.mp3">>

\* the caller is in the poll loop of a blocking play, the second thread's
\* stop() has been applied, and the loop is inside the polls followed
StoppedWhileBlocked ==
    /\ Win /\ pc \in {"mb_sleep", "mb_status"}
    /\ call.op = "play" /\ call.block
    /\ oresult = Other("stop", "ok")
    /\ pc = "mb_sleep" => Sleeps(trace) < MaxPolls

\* the call has ended: normally, or with the error of a status query the
\* subsystem refused
PlayReturned ==
    /\ Idle /\ call.op = "play"
    /\ \/ result = "ok" /\ trace[Len(trace)].buf = "stopped"
       \/ /\ result = "PlaysoundException"
          /\ IsStatus(trace[Len(trace)]) /\ trace[Len(trace)].err # 0

\* C15: on the Command-Interface backend, when the second thread's stop()
\* is applied while the caller is blocked in play(block=true), and the poll
\* loop keeps running, the blocked play eventually returns: after a status
\* query answered "stopped", unless the subsystem refuses the query.
C15_StopUnblocksPlay == StoppedWhileBlocked ~> PlayReturned

C15_Witness ==
    /\ Win /\ Idle /\ call.op = "play" /\ call.block /\ result = "ok"
    /\ oresult = Other("stop", "ok")
    /\ StatusAnswers(trace) = <<"playing", "stopped">>

\* after its first n entries the call alternates one sleep of the poll
\* interval with one status query, the sleep first, and makes nothing after
\* a query that is answered "stopped" or refused
PollLoop(t, n) ==
    \A i \in (n + 1)..Len(t) :
        /\ IF (i - n) % 2 = 1 THEN t[i] = Sleep(PollInterval)
           ELSE IsStatus(t[i])
        /\ i < Len(t)
            => ~(IsStatus(t[i]) /\ (t[i].err # 0 \/ t[i].buf = "stopped"))

\* C16: on the Command-Interface backend, every play submits close <alias>,
\* then open "<source>" alias <alias>, then (unless the open raised)
\* play <alias>.  A non-blocking play submits nothing more and has returned;
\* a blocking play whose play command was accepted then alternates one
\* sleep of the poll interval with one status query, and returns normally
\* only after a query answered "stopped".
C16_PlayCommandOrder ==
    (Win /\ call.op = "play")
        => /\ Len(trace) >= 2
           /\ trace[1].a = CommandText(VerbParts("close", alias))
           /\ trace[2].a = CommandText(OpenParts(call.sound, alias))
           /\ Len(trace) >= 3
                => trace[3].a = CommandText(VerbParts("play", alias))
           /\ Len(trace) = 2
                => trace[2].err # 0 /\ Idle /\ result = "PlaysoundException"
           /\ ~call.block
                => /\ Len(trace) <= 3 /\ Idle
                   /\ (Len(trace) = 3 /\ trace[3].err = 0) => result = "ok"
           /\ call.block
                => /\ PollLoop(trace, 3)
                   /\ Len(trace) > 3 => trace[3].err = 0
                   /\ Idle
                        => \/ /\ result = "PlaysoundException"
                              /\ trace[Len(trace)].err # 0
                           \/ /\ result = "ok" /\ Len(trace) > 3
                              /\ IsStatus(trace[Len(trace)])
                              /\ trace[Len(trace)].buf = "stopped"

C16_Witness ==
    /\ Win /\ Idle /\ call.op = "play" /\ call.block /\ result = "ok"
    /\ Len(trace) = 7 /\ trace[1].err = 0 /\ trace[2].err = 0
    /\ StatusAnswers(trace) = <<"playing", "stopped">>

IsResume(e) == e.k = "cmd" /\ StartsWith(e.a, <<"resume">>)

\* C17: on the Command-Interface backend, resume(block) first queries the
\* status and submits resume <alias> if and only if the answer is "paused".
\* When the answer is not "paused" it returns without sleeping or polling;
\* when the resume command was accepted and block is true it runs the poll
\* loop and returns normally only after a status query answered "stopped",
\* and with block false it returns at once.
C17_ResumeOnlyWhenPaused ==
    (Win /\ call.op = "resume")
        => /\ Len(trace) >= 1
           /\ trace[1].a = CommandText(StatusParts(alias))
           /\ (\E i \in 1..Len(trace) : IsResume(trace[i]))
                <=> trace[1].buf = "paused"
           /\ trace[1].buf # "paused"
                => /\ Len(trace) = 1 /\ Idle
                   /\ result = IF trace[1].err = 0 THEN "ok"
                               ELSE "PlaysoundException"
           /\ trace[1].buf = "paused"
                => /\ trace[2].a = CommandText(VerbParts("resume", alias))
                   /\ PollLoop(trace, 2)
                   /\ (trace[2].err # 0 \/ ~call.block)
                        => /\ Len(trace) = 2 /\ Idle
                           /\ result = IF trace[2].err = 0 THEN "ok"
                                       ELSE "PlaysoundException"
                   /\ (Idle /\ call.block /\ result = "ok")
                        => /\ Len(trace) > 2
                           /\ trace[Len(trace)].buf = "stopped"

C17_Witness ==
    /\ Win /\ Idle /\ call.op = "resume" /\ call.block /\ result = "ok"
    /\ StatusAnswers(trace) = <<"paused", "playing", "stopped">>
    /\ Sleeps(trace) = 2

\* the positions in the call's trace of the requests for the NULL state
NullRequests(t) == {i \in 1..Len(t) : IsSetState(t[i], "NULL")}

\* C18: on the Pipeline backend, a play never requests the NULL state when
\* its request for PLAYING was answered other than ASYNC; one answered
\* ASYNC requests NULL at most once, directly after its bus poll for EOS
\* has returned, and has returned normally only once the stream reached its
\* end and NULL was requested exactly once.
C18_NullOnceAfterEos ==
    (Linux /\ call.op = "play")
        => /\ Cardinality(NullRequests(trace)) <= 1
           /\ \A i \in NullRequests(trace) :
                /\ i = Len(trace) /\ i > 1
                /\ trace[i - 1] = Native("poll", <<"EOS">>, "EOS")
                /\ \E j \in 1..(i - 1) :
                    IsSetState(trace[j], "PLAYING") /\ trace[j].buf = "ASYNC"
           /\ (\E j \in 1..Len(trace) :
                    IsSetState(trace[j], "PLAYING") /\ trace[j].buf # "ASYNC")
                => NullRequests(trace) = {}
           /\ ~playbin.eos
                => /\ NullRequests(trace) = {} /\ Calls(trace, "poll") = 0
                   /\ result # "ok"
           /\ (Idle /\ result = "ok")
                => Cardinality(NullRequests(trace)) = 1

C18_Witness ==
    /\ Linux /\ Idle /\ call.op = "play" /\ result = "ok"
    /\ playbin.eos /\ playbin.state = "NULL"
    /\ NullRequests(trace) = {7}

\* C19: on the Command-Interface backend, whenever play(source) has
\* returned normally, the session open under the instance's alias is the
\* one opened for that source, also when the open command was answered with
\* the tolerated duplicate-alias error.
C19_PlaysRequestedSource ==
    (Win /\ Idle /\ call.op = "play" /\ result = "ok")
        => /\ mci[alias].open
           /\ mci[alias].src = call.sound

\* the step is a play that raises IOError: the sound object was not made
FailedPlayStep ==
    /\ Darwin /\ Idle
    /\ call'.op = "play" /\ result' = "IOError"
    /\ Head(trace'[Len(trace')].a) = "initWithContentsOfURL_"

\* the step is a stop() by the caller right after such a play, on an
\* instance that an earlier play marked as playing
StopAfterFailedPlayStep ==
    /\ Darwin /\ Idle
    /\ call.op = "play" /\ result = "IOError" /\ is_playing
    /\ call'.op = "stop"

\* C20: on the Native-Object backend, a play that fails because the sound
\* object cannot be constructed leaves the held sound object and is_playing
\* as they were, and a stop() that follows it invokes the native stop.
C20_FailedPlayKeepsHeldSound ==
    [][/\ FailedPlayStep
            => (nssound' = nssound /\ is_playing' = is_playing)
       /\ StopAfterFailedPlayStep
            => Calls(trace', "stop") = 1]_vars
====
